---- MODULE Spec2Model ----
(***************************************************************************)
(* Model of sniper_verify.py: load_wav -> apply_bandpass_filter ->         *)
(* (optional) save_wav -> run_decoder, as driven by main().                *)
(*                                                                         *)
(* Spec   : one run of main() after argparse has returned.  A sample       *)
(*          buffer is tracked by its length and provenance; the numeric    *)
(*          content of a filtered buffer is not modelled.                  *)
(* SpecRT : load_wav / save_wav / load_wav on concrete 8-bit sample        *)
(*          values (the per-sample arithmetic of lines 61-67 and 104).     *)
(*                                                                         *)
(* Floats are modelled exactly: a normalized cutoff is a fraction <<n,d>>  *)
(* with d > 0, a sample is an integer numerator over 32768.                *)
(***************************************************************************)
EXTENDS Integers, Sequences, FiniteSets, TLC

VARIABLES
    wav_file, freq, bw, save_filtered,   \* args (argparse result)
    disk,                                \* path -> file, DOMAIN = existing paths
    pc, exc,                             \* position in main(), exception leaving main()
    samples, rate, nframes,              \* locals of main() set by load_wav
    filtered_samples,                    \* local of main() set by apply_bandpass_filter
    Wn,                                  \* [low, high] handed to signal.butter
    out_name,                            \* path handed to save_wav
    decoder_in,                          \* buffer handed to ft8.extract
    decoder_out,                         \* what ft8.extract did: "none", "ok", "raised"
    stdout,                              \* N of "--- Decoding Results (N messages) ---", -1 if not printed
    log,                                 \* logger records, in order
    calls,                               \* functions entered, in order
    rt_pc, rt_file, rt_first, rt_out, rt_second   \* round trip (SpecRT)

vars == <<wav_file, freq, bw, save_filtered, disk, pc, exc, samples, rate, nframes,
          filtered_samples, Wn, out_name, decoder_in, decoder_out, stdout, log, calls,
          rt_pc, rt_file, rt_first, rt_out, rt_second>>

mainVars == <<wav_file, freq, bw, save_filtered, disk, pc, exc, samples, rate, nframes,
              filtered_samples, Wn, out_name, decoder_in, decoder_out, stdout, log, calls>>

rtVars == <<rt_pc, rt_file, rt_first, rt_out, rt_second>>

----------------------------------------------------------------------------
(* Bounds and input sets *)

MaxNameTokens == 2      \* a path is 1..MaxNameTokens pieces, each "x" or ".wav"
MaxExtraFrames == 2     \* frame counts reach PadLen + MaxExtraFrames
MaxMessages == 1        \* messages a successful decode returns: 0..MaxMessages
MaxRTFrames == 2        \* frames of the 8-bit file of the round trip

DecoderRate == 12000    \* the rate run_decoder resamples to
PadLen == 27            \* filtfilt's default padlen, 3 * max(len(a), len(b)) for order-4 bandpass
Int16Scale == 32767     \* save_wav's multiplier
Int16Norm == 32768      \* load_wav's 16-bit divisor
Uint8Norm == 128        \* load_wav's 8-bit offset and divisor

Ext == <<".", "w", "a", "v">>

Pieces == {<<"x">>, Ext}

RECURSIVE PieceSeqs(_)
PieceSeqs(n) ==
    IF n = 0 THEN {<<>>}
    ELSE {p \o s : p \in Pieces, s \in PieceSeqs(n - 1)}

Names == UNION {PieceSeqs(n) : n \in 1..MaxNameTokens}

Freqs == {-100, 50, 51, 1000, 7000}
Bws == {0, 100}
Rates == {0, 8000, DecoderRate, 44100, 384000}
FrameCounts == {0} \cup (PadLen..(PadLen + MaxExtraFrames))

WavFiles ==
    [riff : {TRUE}, channels : {1, 2}, width : {1, 2, 3},
     framerate : Rates, nframes : FrameCounts]

\* a file wave.open rejects (not RIFF/WAVE)
NotWav == [riff |-> FALSE, channels |-> 1, width |-> 1, framerate |-> 0, nframes |-> 0]

\* classes deriving from Exception that the library calls of this program raise
ExceptionClasses == {"ValueError", "wave.Error", "OSError", "IndexError", "ZeroDivisionError"}

NoBuf == [kind |-> "None", len |-> 0]

NoWn == [low |-> <<0, 1>>, high |-> <<0, 1>>]

----------------------------------------------------------------------------
(* load_wav *)

\* lines 54-59: the sample widths np.frombuffer is given a dtype for
SupportedWidth(width) == width \in {1, 2}

\* lines 61-71: number of samples kept from nraw raw samples
SampleCount(channels, nraw) ==
    IF channels = 2 THEN (nraw + 1) \div 2 ELSE nraw

\* lines 45-59: the exception raised inside load_wav's try block, "none" if none
LoadFailure(f) ==
    IF ~f.riff THEN "wave.Error"
    ELSE IF ~SupportedWidth(f.width) THEN "ValueError"
    ELSE "none"

LoadHandlerCatchesWaveErrorOnly(cls) == cls = "wave.Error"

\* line 74: except Exception
LoadHandlerCatches(cls) == cls \in ExceptionClasses

\* load_wav(filename) on disk d: what it returns, logs and raises.
load_wav(filename, d) ==
    IF filename \notin DOMAIN d
    THEN [samples |-> NoBuf, rate |-> 0, nframes |-> 0,
          log |-> <<"ERROR File not found">>, exc |-> "none"]
    ELSE IF LoadFailure(d[filename]) # "none"
    THEN IF LoadHandlerCatches(LoadFailure(d[filename]))
         THEN [samples |-> NoBuf, rate |-> 0, nframes |-> 0,
               log |-> <<"INFO Loading", "ERROR Error loading wav">>, exc |-> "none"]
         ELSE [samples |-> NoBuf, rate |-> 0, nframes |-> 0,
               log |-> <<"INFO Loading">>, exc |-> LoadFailure(d[filename])]
    ELSE [samples |-> [kind |-> "loaded",
                       len |-> SampleCount(d[filename].channels,
                                           d[filename].nframes * d[filename].channels)],
          rate |-> d[filename].framerate,
          nframes |-> d[filename].nframes,
          log |-> <<"INFO Loading">>, exc |-> "none"]

----------------------------------------------------------------------------
(* apply_bandpass_filter *)

\* order on fractions <<n, d>>, d > 0 (equal denominators compared directly)
Less(a, b) == IF a[2] = b[2] THEN a[1] < b[1] ELSE a[1] * b[2] < b[1] * a[2]
Leq(a, b) == IF a[2] = b[2] THEN a[1] <= b[1] ELSE a[1] * b[2] <= b[1] * a[2]

\* lines 83-84, 88: (center_freq - bandwidth/2) / (0.5 * rate), then the low clamp
LowCutoff(r, center_freq, bandwidth) ==
    IF 2 * center_freq - bandwidth <= 0
    THEN <<1, 1000>>
    ELSE <<2 * center_freq - bandwidth, r>>

\* lines 83, 85, 89: (center_freq + bandwidth/2) / (0.5 * rate), then the high clamp
HighCutoff(r, center_freq, bandwidth) ==
    IF 2 * center_freq + bandwidth >= r
    THEN <<999, 1000>>
    ELSE <<2 * center_freq + bandwidth, r>>

\* signal.butter(4, [low, high], btype='band') always raises ValueError
\* unless 0 < Wn < 1 ...
ButterRejects(w) ==
    \/ Leq(w.low, <<0, 1>>) \/ Leq(w.high, <<0, 1>>)
    \/ Leq(<<1, 1>>, w.low) \/ Leq(<<1, 1>>, w.high)

\* ... and, in releases that check it, unless Wn[0] < Wn[1]
ButterMayReject(w) == ButterRejects(w) \/ Leq(w.high, w.low)

\* signal.filtfilt(b, a, samples) raises ValueError unless len(samples) > padlen
FiltfiltRejects(buf) == buf.len <= PadLen

----------------------------------------------------------------------------
(* save_wav and the output name *)

Suffix(f) ==
    <<"_", "f", "i", "l", "t", "e", "r", "e", "d", "_", ToString(f), "H", "z">> \o Ext

\* str.replace(".wav", new): every non-overlapping occurrence, left to right
RECURSIVE Replace(_, _)
Replace(s, new) ==
    IF Len(s) < Len(Ext) THEN s
    ELSE IF SubSeq(s, 1, Len(Ext)) = Ext
         THEN new \o Replace(SubSeq(s, Len(Ext) + 1, Len(s)), new)
         ELSE <<Head(s)>> \o Replace(Tail(s), new)

\* line 193
OutName(name, f) == Replace(name, Suffix(f))

\* What lines 106-111 can do: "ok" writes the file; "no_open" is wave.open
\* failing before the file is created; "partial" is a failure after wave.open
\* created or truncated it.
WriteOutcomes == {"ok", "no_open", "partial"}

\* the exception lines 104-111 raise on each outcome
SaveFailure(outcome) ==
    CASE outcome = "ok" -> "none"
      [] outcome = "no_open" -> "OSError"
      [] OTHER -> "wave.Error"

SaveHandlerCatchesWaveErrorOnly(cls) == cls = "wave.Error"

\* line 113: except Exception
SaveHandlerCatches(cls) == cls \in ExceptionClasses

SavedFile(buf, r) ==
    [riff |-> TRUE, channels |-> 1, width |-> 2, framerate |-> r, nframes |-> buf.len]

DiskAfterSave(d, filename, buf, r, outcome) ==
    CASE outcome = "ok" -> (filename :> SavedFile(buf, r)) @@ d
      [] outcome = "partial" -> (filename :> NotWav) @@ d
      [] OTHER -> d

----------------------------------------------------------------------------
(* run_decoder *)

\* line 128: int(len(samples) * 12000 / rate)
NumSamplesRounded(len, r) == (2 * len * DecoderRate + r) \div (2 * r)

\* line 128: int(len(samples) * 12000 / rate)
NumSamples(len, r) == (len * DecoderRate) \div r

\* lines 126-130: the buffer after rate adaptation
Resampled(buf, r) ==
    IF r # DecoderRate
    THEN [kind |-> "resampled", len |-> NumSamples(buf.len, r)]
    ELSE buf

\* signal.resample(samples, 0) has no defined result: it may raise (the
\* inverse FFT of zero points) or return an empty array.
ResampleMayRaise(buf, r) == r # DecoderRate /\ NumSamples(buf.len, r) = 0

\* a decode through a temporary file that is removed only after a successful decode
DiskAfterDecodeLeaking(d, outcome) ==
    IF outcome = "raised" THEN (<<"t", "m", "p">> :> NotWav) @@ d ELSE d

\* lines 116-170 create no file: the disk after run_decoder, whatever extract did
DiskAfterDecode(d, outcome) == d

\* What ft8.extract does with the buffer: returns n messages, or raises an
\* exception of a class deriving from Exception.
DecoderOutcomes ==
    {[raised |-> "none", n |-> n] : n \in 0..MaxMessages}
        \cup {[raised |-> c, n |-> 0] : c \in {"ValueError", "IndexError"}}

DecodeHandlerCatchesValueErrorOnly(cls) == cls = "ValueError"

\* line 167: except Exception
DecodeHandlerCatches(cls) == cls \in ExceptionClasses

----------------------------------------------------------------------------
(* main *)

Init ==
    /\ wav_file \in Names
    /\ freq \in Freqs
    /\ bw \in Bws
    /\ save_filtered \in BOOLEAN
    /\ disk \in {<< >>} \cup {(wav_file :> f) : f \in WavFiles \cup {NotWav}}
    /\ pc = "load"
    /\ exc = "none"
    /\ samples = NoBuf
    /\ rate = 0
    /\ nframes = 0
    /\ filtered_samples = NoBuf
    /\ Wn = NoWn
    /\ out_name = << >>
    /\ decoder_in = NoBuf
    /\ decoder_out = "none"
    /\ stdout = -1
    /\ log = << >>
    /\ calls = << >>
    /\ rt_pc = "off"
    /\ rt_file = << >>
    /\ rt_first = << >>
    /\ rt_out = << >>
    /\ rt_second = << >>

MainContinuesOnNone(s) == FALSE

\* line 183: if samples is None: return
MainReturnsEarly(s) == s.kind = "None"

\* lines 182-186
main_load ==
    /\ pc = "load"
    /\ LET r == load_wav(wav_file, disk) IN
         /\ samples' = r.samples
         /\ rate' = r.rate
         /\ nframes' = r.nframes
         /\ calls' = Append(calls, "load_wav")
         /\ IF r.exc # "none"
            THEN /\ pc' = "raised" /\ exc' = r.exc /\ log' = log \o r.log
            ELSE IF MainReturnsEarly(r.samples)
            THEN /\ pc' = "done" /\ exc' = exc /\ log' = log \o r.log
            ELSE IF r.samples.kind = "None"
            THEN /\ pc' = "raised" /\ exc' = "TypeError" /\ log' = log \o r.log
            ELSE IF r.rate = 0
            THEN /\ pc' = "raised" /\ exc' = "ZeroDivisionError" /\ log' = log \o r.log
            ELSE /\ pc' = "filter" /\ exc' = exc
                 /\ log' = log \o r.log \o <<"INFO Loaded">>
    /\ UNCHANGED <<wav_file, freq, bw, save_filtered, disk, filtered_samples, Wn,
                   out_name, decoder_in, decoder_out, stdout>>
    /\ UNCHANGED rtVars

\* line 189, with apply_bandpass_filter (lines 78-98) inlined
main_filter ==
    /\ pc = "filter"
    /\ LET w == [low |-> LowCutoff(rate, freq, bw), high |-> HighCutoff(rate, freq, bw)] IN
         /\ Wn' = w
         /\ log' = Append(log, "INFO Applying Bandpass Filter")
         /\ \E rejected \in {ButterRejects(w), ButterMayReject(w)} :
              IF rejected
              THEN /\ pc' = "raised" /\ exc' = "ValueError"
                   /\ calls' = calls \o <<"apply_bandpass_filter", "butter">>
                   /\ filtered_samples' = filtered_samples
              ELSE IF FiltfiltRejects(samples)
              THEN /\ pc' = "raised" /\ exc' = "ValueError"
                   /\ calls' = calls \o <<"apply_bandpass_filter", "butter", "filtfilt">>
                   /\ filtered_samples' = filtered_samples
              ELSE /\ pc' = "save" /\ exc' = exc
                   /\ calls' = calls \o <<"apply_bandpass_filter", "butter", "filtfilt">>
                   /\ filtered_samples' = [kind |-> "filtered", len |-> samples.len]
    /\ UNCHANGED <<wav_file, freq, bw, save_filtered, disk, samples, rate, nframes,
                   out_name, decoder_in, decoder_out, stdout>>
    /\ UNCHANGED rtVars

\* lines 192-194, with save_wav (lines 100-114) inlined
main_save ==
    /\ pc = "save"
    /\ save_filtered
    /\ out_name' = OutName(wav_file, freq)
    /\ calls' = Append(calls, "save_wav")
    /\ \E outcome \in WriteOutcomes :
         /\ disk' = DiskAfterSave(disk, OutName(wav_file, freq), filtered_samples, rate, outcome)
         /\ IF SaveFailure(outcome) = "none"
            THEN /\ log' = Append(log, "INFO Saved filtered audio")
                 /\ pc' = "decode" /\ exc' = exc
            ELSE IF SaveHandlerCatches(SaveFailure(outcome))
            THEN /\ log' = Append(log, "ERROR Error saving wav")
                 /\ pc' = "decode" /\ exc' = exc
            ELSE /\ log' = log
                 /\ pc' = "raised" /\ exc' = SaveFailure(outcome)
    /\ UNCHANGED <<wav_file, freq, bw, save_filtered, samples, rate, nframes,
                   filtered_samples, Wn, decoder_in, decoder_out, stdout>>
    /\ UNCHANGED rtVars

\* line 192 when --save-filtered is absent
main_skip_save ==
    /\ pc = "save"
    /\ ~save_filtered
    /\ pc' = "decode"
    /\ UNCHANGED <<wav_file, freq, bw, save_filtered, disk, exc, samples, rate, nframes,
                   filtered_samples, Wn, out_name, decoder_in, decoder_out, stdout, log, calls>>
    /\ UNCHANGED rtVars

\* line 199, with run_decoder (lines 116-170) inlined
run_decoder ==
    /\ pc = "decode"
    /\ \E resample_raises \in {FALSE, ResampleMayRaise(filtered_samples, rate)} :
         IF resample_raises
         THEN /\ pc' = "raised" /\ exc' = "ValueError"
              /\ calls' = calls \o <<"run_decoder", "resample">>
              /\ log' = log \o <<"INFO Running Decoder", "INFO Resampling">>
              /\ UNCHANGED <<decoder_in, decoder_out, stdout, disk>>
         ELSE \E o \in DecoderOutcomes :
              LET resampling == rate # DecoderRate
                  before == log \o <<"INFO Running Decoder">>
                                \o (IF resampling THEN <<"INFO Resampling">> ELSE << >>)
              IN
              /\ decoder_in' = Resampled(filtered_samples, rate)
              /\ calls' = calls \o <<"run_decoder">>
                             \o (IF resampling THEN <<"resample">> ELSE << >>)
                             \o <<"extract">>
              /\ decoder_out' = IF o.raised = "none" THEN "ok" ELSE "raised"
              /\ disk' = DiskAfterDecode(disk, decoder_out')
              /\ IF o.raised = "none"
                 THEN /\ pc' = "done" /\ exc' = exc
                      /\ stdout' = o.n
                      /\ log' = before
                 ELSE IF DecodeHandlerCatches(o.raised)
                 THEN /\ pc' = "done" /\ exc' = exc
                      /\ stdout' = stdout
                      /\ log' = Append(before, "ERROR Decoder error")
                 ELSE /\ pc' = "raised" /\ exc' = o.raised
                      /\ stdout' = stdout
                      /\ log' = before
    /\ UNCHANGED <<wav_file, freq, bw, save_filtered, samples, rate, nframes,
                   filtered_samples, Wn, out_name>>
    /\ UNCHANGED rtVars

----------------------------------------------------------------------------
(* The arithmetic of load_wav and save_wav on sample values.  A float sample *)
(* is its numerator over Int16Norm: (v - 128) / 128.0 and v / 32768.0 are     *)
(* exact in binary floating point, and so is the product with 32767.          *)

\* lines 64-67: raw integer sample to float
LoadSample(width, v) ==
    IF width = 1 THEN (v - Uint8Norm) * (Int16Norm \div Uint8Norm) ELSE v

\* lines 70-71: samples[::2] when channels == 2
Decimate(channels, s) ==
    IF channels = 2
    THEN [i \in 1..((Len(s) + 1) \div 2) |-> s[2 * i - 1]]
    ELSE s

\* lines 61-73 on a readable file of supported width
LoadSamples(f) ==
    Decimate(f.channels, [i \in 1..Len(f.data) |-> LoadSample(f.width, f.data[i])])

\* astype(np.int16) of a float within the int16 range: truncation toward zero
Trunc(n, d) == IF n >= 0 THEN n \div d ELSE -((-n) \div d)

SaveSampleUnscaled(x) == Trunc(x, Int16Norm)

\* line 104: (samples * 32767).astype(np.int16)
SaveSample(x) == Trunc(x * Int16Scale, Int16Norm)

\* lines 104-111: the file save_wav writes
SaveFile(s, r) ==
    [riff |-> TRUE, channels |-> 1, width |-> 2, framerate |-> r, nframes |-> Len(s),
     data |-> [i \in 1..Len(s) |-> SaveSample(s[i])]]

\* raw 8-bit data: n samples starting at k, stepping through 0..255
Pattern(k, n) == [i \in 1..n |-> (k + 85 * (i - 1)) % 256]

InitRT ==
    /\ rt_file \in {[riff |-> TRUE, channels |-> c, width |-> 1, framerate |-> 8000,
                     nframes |-> n, data |-> Pattern(k, n * c)] :
                        c \in {1, 2}, n \in 0..MaxRTFrames, k \in 0..255}
    /\ rt_pc = "load"
    /\ rt_first = << >>
    /\ rt_out = << >>
    /\ rt_second = << >>
    /\ wav_file = << >>
    /\ freq = 0
    /\ bw = 0
    /\ save_filtered = FALSE
    /\ disk = << >>
    /\ pc = "off"
    /\ exc = "none"
    /\ samples = NoBuf
    /\ rate = 0
    /\ nframes = 0
    /\ filtered_samples = NoBuf
    /\ Wn = NoWn
    /\ out_name = << >>
    /\ decoder_in = NoBuf
    /\ decoder_out = "none"
    /\ stdout = -1
    /\ log = << >>
    /\ calls = << >>

\* load_wav on the 8-bit file
rt_load ==
    /\ rt_pc = "load"
    /\ rt_first' = LoadSamples(rt_file)
    /\ rt_pc' = "save"
    /\ UNCHANGED <<rt_file, rt_out, rt_second>>
    /\ UNCHANGED mainVars

\* save_wav of the loaded samples
rt_save ==
    /\ rt_pc = "save"
    /\ rt_out' = SaveFile(rt_first, rt_file.framerate)
    /\ rt_pc' = "reload"
    /\ UNCHANGED <<rt_file, rt_first, rt_second>>
    /\ UNCHANGED mainVars

\* load_wav on the file save_wav wrote
rt_reload ==
    /\ rt_pc = "reload"
    /\ rt_second' = LoadSamples(rt_out)
    /\ rt_pc' = "done"
    /\ UNCHANGED <<rt_file, rt_first, rt_out>>
    /\ UNCHANGED mainVars

NextRT == rt_load \/ rt_save \/ rt_reload

SpecRT == InitRT /\ [][NextRT]_vars

Next == main_load \/ main_filter \/ main_save \/ main_skip_save \/ run_decoder

Spec == Init /\ [][Next]_vars

----------------------------------------------------------------------------
(* Claims *)

Called(f) == \E i \in 1..Len(calls) : calls[i] = f
Logged(m) == \E i \in 1..Len(log) : log[i] = m
Index(f) == CHOOSE i \in 1..Len(calls) : calls[i] = f
Abs(x) == IF x < 0 THEN -x ELSE x

\* C1: when ft8.extract raises (an exception deriving from Exception) on the
\* buffer it is given, run_decoder returns normally: nothing leaves main, no
\* result header or message is printed, and "Decoder error" is logged.
C1_DecoderErrorCaught ==
    decoder_out = "raised" =>
        /\ pc = "done"
        /\ exc = "none"
        /\ stdout = -1
        /\ Logged("ERROR Decoder error")

C1_Witness == decoder_out = "raised" /\ pc = "done" /\ Called("extract")

\* C2: once the arguments are parsed, no exception propagates out of main,
\* whatever the input file, freq and bw.
C2_NoExceptionLeavesMain == pc # "raised" /\ exc = "none"

\* C3: whenever load_wav returns no samples main returns at once, with no
\* fault, and apply_bandpass_filter, save_wav and run_decoder are never
\* entered; for a missing path the "File not found" record is logged.
C3_NoSamplesStopsPipeline ==
    (Called("load_wav") /\ samples.kind = "None") =>
        /\ pc = "done"
        /\ exc = "none"
        /\ calls = <<"load_wav">>
        /\ (wav_file \notin DOMAIN disk =>
               log = <<"ERROR File not found">>)

C3_Witness ==
    /\ wav_file \notin DOMAIN disk
    /\ calls = <<"load_wav">>
    /\ pc = "done"

UnsupportedWidthLoaded ==
    /\ Called("load_wav")
    /\ wav_file \in DOMAIN disk
    /\ disk[wav_file].riff
    /\ disk[wav_file].width \notin {1, 2}

\* C4 as stated: a sample width other than 8 or 16 bits makes load_wav raise
\* to its caller, not return the no-samples result of a missing file.
C4_UnsupportedFormatSurfaced ==
    UnsupportedWidthLoaded => (exc = "ValueError" /\ pc = "raised")

\* C4 amended: a sample width other than 8 or 16 bits makes load_wav log
\* "Error loading wav" and return the same no-samples result as for a missing
\* file; nothing is raised to the caller and main returns.
C4_UnsupportedFormatReturnsNone ==
    UnsupportedWidthLoaded =>
        /\ samples = NoBuf
        /\ exc = "none"
        /\ pc = "done"
        /\ log = <<"INFO Loading", "ERROR Error loading wav">>

C4_Witness == UnsupportedWidthLoaded /\ pc = "done" /\ disk[wav_file].width = 3

\* C5: in every finished run where load and filtering succeeded, run_decoder
\* was entered on the filtered buffer, after save_wav when --save-filtered
\* was given, whether the write succeeded, failed or was not requested.
C5_DecodeFollowsSave ==
    (filtered_samples.kind = "filtered" /\ pc \in {"done", "raised"}) =>
        /\ Called("run_decoder")
        /\ save_filtered =>
               (Called("save_wav") /\ Index("save_wav") < Index("run_decoder"))
        /\ ~save_filtered => ~Called("save_wav")
        /\ Called("extract") => decoder_in = Resampled(filtered_samples, rate)

C5_Witness ==
    /\ save_filtered
    /\ Logged("ERROR Error saving wav")
    /\ Called("extract")
    /\ pc = "done"

\* C6: run_decoder leaves the disk as it found it on every exit path, and a
\* run without --save-filtered never changes the disk.
C6_NoFileLeftBehind ==
    [][(pc = "decode" \/ ~save_filtered) => disk' = disk]_vars

C6_Witness ==
    /\ ~save_filtered
    /\ decoder_out = "raised"
    /\ pc = "done"

\* C7: for every rate > 0 the cutoffs handed to signal.butter satisfy
\* 0.001 <= low, high <= 0.999 and low < high, so that signal.butter has no
\* domain violation to raise.
C7_CutoffsInDomain ==
    (Called("butter") /\ rate > 0) =>
        /\ Leq(<<1, 1000>>, Wn.low)
        /\ Leq(Wn.high, <<999, 1000>>)
        /\ Less(Wn.low, Wn.high)
        /\ ~ButterMayReject(Wn)

\* round to nearest
Round(n, d) == (2 * n + d) \div (2 * d)

\* C8 as stated: the decoder gets the filtered buffer unchanged at 12000 Hz,
\* and round(L * 12000 / R) samples at any other rate R.
C8_ResampledLengthRounded ==
    Called("extract") =>
        IF rate = DecoderRate
        THEN decoder_in = filtered_samples
        ELSE decoder_in.len = Round(filtered_samples.len * DecoderRate, rate)

\* C8 amended: whenever the decoder is invoked it gets the filtered buffer
\* unchanged at 12000 Hz, and floor(L * 12000 / R) samples (truncation, not
\* rounding) at any other rate R.
C8_ResampledLengthTruncated ==
    Called("extract") =>
        IF rate = DecoderRate
        THEN decoder_in = filtered_samples
        ELSE /\ decoder_in.kind = "resampled"
             /\ decoder_in.len * rate <= filtered_samples.len * DecoderRate
             /\ filtered_samples.len * DecoderRate < (decoder_in.len + 1) * rate

C8_Witness ==
    /\ Called("extract")
    /\ rate # DecoderRate
    /\ (filtered_samples.len * DecoderRate) % rate # 0
    /\ decoder_in.len # Round(filtered_samples.len * DecoderRate, rate)

\* C9: for 8-bit mono input, load_wav, save_wav, load_wav keeps the sample
\* count and moves no sample by more than 1/128.
C9_RoundTripWithinQuantization ==
    (rt_pc = "done" /\ rt_file.channels = 1 /\ rt_file.width = 1) =>
        /\ Len(rt_first) = rt_file.nframes
        /\ Len(rt_second) = Len(rt_first)
        /\ \A i \in 1..Len(rt_first) :
             /\ rt_first[i] * Uint8Norm = (rt_file.data[i] - Uint8Norm) * Int16Norm
             /\ Abs(rt_second[i] - rt_first[i]) * Uint8Norm <= Int16Norm

C9_Witness ==
    /\ rt_pc = "done"
    /\ rt_file.channels = 1
    /\ Len(rt_second) = MaxRTFrames
    /\ rt_second # rt_first

\* C10: with --save-filtered the path save_wav writes differs from the input
\* path, so the input file is never overwritten.
C10_InputNotOverwritten ==
    Called("save_wav") =>
        /\ out_name # wav_file
        /\ (wav_file \in DOMAIN disk /\ disk[wav_file].riff)

====
